---- MODULE Spec2Model ----
(***************************************************************************)
(* A model of the contact registry: the field validators (Phone,           *)
(* Birthday), Record, AddressBook and the command handlers wrapped by      *)
(* input_error.                                                            *)
(*                                                                         *)
(* A Python str is a sequence of one-character strings.  Two characters    *)
(* that the validators treat specially are named: "\n" (LINE FEED) and     *)
(* "u0663" (the single character U+0663, ARABIC-INDIC DIGIT THREE, which   *)
(* is a decimal digit for \d and for int()).                               *)
(***************************************************************************)
EXTENDS Integers, Sequences, FiniteSets, TLC

VARIABLES data, call

vars == <<data, call>>

(***************************************************************************)
(* `call` is the last call made: its name, its arguments, its outcome.     *)
(***************************************************************************)
Call(op, args, out) == [op |-> op, args |-> args, out |-> out]

(***************************************************************************)
(* Characters and strings                                                  *)
(***************************************************************************)
AsciiDigits == {"0", "1", "2", "3", "4", "5", "6", "7", "8", "9"}

UnicodeDigits == {"u0663"}

\* \d in a str pattern (re without re.ASCII): any Unicode decimal digit.
IsDigit(c) == c \in AsciiDigits \cup UnicodeDigits

\* int() of a one-digit string.
DigitVal(c) ==
    CASE c = "0" -> 0 [] c = "1" -> 1 [] c = "2" -> 2 [] c = "3" -> 3
      [] c = "4" -> 4 [] c = "5" -> 5 [] c = "6" -> 6 [] c = "7" -> 7
      [] c = "8" -> 8 [] c = "9" -> 9 [] c = "u0663" -> 3

\* int() of a string of digits.
RECURSIVE IntOf(_)
IntOf(s) ==
    IF s = <<>> THEN 0
    ELSE 10 * IntOf(SubSeq(s, 1, Len(s) - 1)) + DigitVal(s[Len(s)])

\* The decimal digits of n >= 0, at least `width` of them (zero padded).
RECURSIVE Digits(_, _)
Digits(n, width) ==
    LET d == <<CASE n % 10 = 0 -> "0" [] n % 10 = 1 -> "1" [] n % 10 = 2 -> "2"
                 [] n % 10 = 3 -> "3" [] n % 10 = 4 -> "4" [] n % 10 = 5 -> "5"
                 [] n % 10 = 6 -> "6" [] n % 10 = 7 -> "7" [] n % 10 = 8 -> "8"
                 [] n % 10 = 9 -> "9">>
    IN  IF n < 10 /\ width <= 1 THEN d
        ELSE Digits(n \div 10, width - 1) \o d

\* n copies of the character c.
Rep(c, n) == [i \in 1..n |-> c]

(***************************************************************************)
(* Outcomes of a call: a returned value or a raised exception.             *)
(***************************************************************************)
Return(v) == [kind |-> "return", value |-> v]

Raise(e) == [kind |-> "raise", exc |-> e]

None == [is |-> "None"]

(***************************************************************************)
(* field.py: Phone                                                         *)
(***************************************************************************)
PhoneDigits == 10

\* re.compile(r'^\d{10}$').match(value): ten \d characters from the start,
\* then $, which matches at the end of the string and also just before a
\* line feed that ends the string.
phone_pattern_match(value) ==
    /\ Len(value) >= PhoneDigits
    /\ \A i \in 1..PhoneDigits : IsDigit(value[i])
    /\ \/ Len(value) = PhoneDigits
       \/ Len(value) = PhoneDigits + 1 /\ value[PhoneDigits + 1] = "\n"

\* Phone.validate_phone: the value itself, or ValueError.
validate_phone(value) ==
    IF ~phone_pattern_match(value) THEN Raise("ValueError")
    ELSE Return(value)

\* Phone(value): self.value = self.validate_phone(value).
Phone(value) ==
    LET v == validate_phone(value)
    IN  IF v.kind = "raise" THEN v ELSE Return([value |-> v.value])

(***************************************************************************)
(* datetime.date, as the code uses it                                      *)
(***************************************************************************)
MINYEAR == 1

MAXYEAR == 9999

is_leap(y) == y % 4 = 0 /\ (y % 100 # 0 \/ y % 400 = 0)

days_in_month(y, m) ==
    CASE m \in {1, 3, 5, 7, 8, 10, 12} -> 31
      [] m \in {4, 6, 9, 11} -> 30
      [] m = 2 -> IF is_leap(y) THEN 29 ELSE 28

days_before_year(y) ==
    (y - 1) * 365 + (y - 1) \div 4 - (y - 1) \div 100 + (y - 1) \div 400

RECURSIVE days_before_month(_, _)
days_before_month(y, m) ==
    IF m = 1 THEN 0 ELSE days_before_month(y, m - 1) + days_in_month(y, m - 1)

\* date.toordinal(): 1 for 0001-01-01.
toordinal(d) == days_before_year(d.year) + days_before_month(d.year, d.month) + d.day

\* date(year, month, day): ValueError unless it is a calendar date.
date(y, m, d) ==
    IF /\ y \in MINYEAR..MAXYEAR
       /\ m \in 1..12
       /\ d \in 1..days_in_month(y, m)
    THEN Return([year |-> y, month |-> m, day |-> d])
    ELSE Raise("ValueError")

\* date.fromordinal(n), Python's _ord2ymd.
fromordinal(n) ==
    LET n0   == n - 1
        n400 == n0 \div 146097
        r400 == n0 % 146097
        n100 == r400 \div 36524
        r100 == r400 % 36524
        n4   == r100 \div 1461
        r4   == r100 % 1461
        n1   == r4 \div 365
        r1   == r4 % 365
        year == n400 * 400 + 1 + n100 * 100 + n4 * 4 + n1
        m0   == (r1 + 50) \div 32
        pre0 == days_before_month(year, m0)
        month == IF pre0 > r1 THEN m0 - 1 ELSE m0
        pre  == days_before_month(year, month)
    IN  IF n1 = 4 \/ n100 = 4
        THEN [year |-> year - 1, month |-> 12, day |-> 31]
        ELSE [year |-> year, month |-> month, day |-> r1 - pre + 1]

\* d + timedelta(days=k)
plus_days(d, k) == fromordinal(toordinal(d) + k)

\* date.weekday(): Monday is 0.
weekday(d) == (toordinal(d) + 6) % 7

\* date.replace(year=y)
replace_year(d, y) == date(y, d.month, d.day)

\* a < b, a <= b on dates
date_lt(a, b) == toordinal(a) < toordinal(b)

date_le(a, b) == toordinal(a) <= toordinal(b)

\* date.strftime("%d.%m.%Y")
strftime(d) == Digits(d.day, 2) \o <<".">> \o Digits(d.month, 2) \o <<".">> \o Digits(d.year, 4)

(***************************************************************************)
(* field.py: Birthday                                                      *)
(***************************************************************************)
\* _strptime's pattern for %d: 3[0-1]|[1-2]\d|0[1-9]|[1-9]| [1-9]
match_d(s) ==
    \/ Len(s) = 2 /\ s[1] = "3" /\ s[2] \in {"0", "1"}
    \/ Len(s) = 2 /\ s[1] \in {"1", "2"} /\ IsDigit(s[2])
    \/ Len(s) = 2 /\ s[1] = "0" /\ s[2] \in AsciiDigits \ {"0"}
    \/ Len(s) = 1 /\ s[1] \in AsciiDigits \ {"0"}
    \/ Len(s) = 2 /\ s[1] = " " /\ s[2] \in AsciiDigits \ {"0"}

\* _strptime's pattern for %m: 1[0-2]|0[1-9]|[1-9]
match_m(s) ==
    \/ Len(s) = 2 /\ s[1] = "1" /\ s[2] \in {"0", "1", "2"}
    \/ Len(s) = 2 /\ s[1] = "0" /\ s[2] \in AsciiDigits \ {"0"}
    \/ Len(s) = 1 /\ s[1] \in AsciiDigits \ {"0"}

\* _strptime's pattern for %Y: \d\d\d\d
match_Y(s) == Len(s) = 4 /\ \A i \in 1..4 : IsDigit(s[i])

\* The positions of "." in s.
Dots(s) == {i \in 1..Len(s) : s[i] = "."}

\* int() of a matched group (a leading space is skipped by int()).
group_int(s) == IF s # <<>> /\ s[1] = " " THEN IntOf(Tail(s)) ELSE IntOf(s)

\* datetime.strptime(value, "%d.%m.%Y").date(): the pattern has to match
\* from the start and leave nothing unconverted, and the numbers have to
\* make a date.  No group can hold a ".", so the groups are the three
\* pieces between the two dots.
strptime(value) ==
    IF Cardinality(Dots(value)) # 2 THEN Raise("ValueError")
    ELSE LET i == CHOOSE k \in Dots(value) : \A j \in Dots(value) : k <= j
             j == CHOOSE k \in Dots(value) : k # i
             d == SubSeq(value, 1, i - 1)
             m == SubSeq(value, i + 1, j - 1)
             Y == SubSeq(value, j + 1, Len(value))
         IN  IF match_d(d) /\ match_m(m) /\ match_Y(Y)
             THEN date(group_int(Y), group_int(m), group_int(d))
             ELSE Raise("ValueError")

\* Birthday.parse_birthday: ValueError is raised again as ValueError.
parse_birthday(value) ==
    LET r == strptime(value)
    IN  IF r.kind = "raise" THEN Raise("ValueError") ELSE r

\* Birthday(value): self.value = self.parse_birthday(value).
Birthday(value) ==
    LET v == parse_birthday(value)
    IN  IF v.kind = "raise" THEN v
        ELSE Return([is |-> "Birthday", value |-> v.value])

(***************************************************************************)
(* record.py: Record.  A method is a function of the record before the     *)
(* call, giving the record after it (rec) and the outcome (out).           *)
(***************************************************************************)
Msg(text, arg) == [text |-> text, arg |-> arg]

\* Record(name)
Record(name) == [name |-> [value |-> name], phones |-> <<>>, birthday |-> None]

\* Record.add_phone
Record_add_phone(rec, phone) ==
    LET p == Phone(phone)
    IN  IF p.kind = "raise" THEN [rec |-> rec, out |-> p]
        ELSE [rec |-> [rec EXCEPT !.phones = Append(@, p.value)],
              out |-> Return(None)]

\* Record.remove_phone
Record_remove_phone(rec, phone) ==
    LET keep(item) == item.value # phone
    IN  [rec |-> [rec EXCEPT !.phones = SelectSeq(@, keep)],
         out |-> Return(None)]

\* The positions of the phones whose value is `phone`.
Matches(rec, phone) == {i \in 1..Len(rec.phones) : rec.phones[i].value = phone}

\* A faulty edit_phone: the new value is stored as given, never validated.
Record_edit_phone_unvalidated(rec, old_phone, new_phone) ==
    IF Matches(rec, old_phone) # {}
    THEN LET i == CHOOSE k \in Matches(rec, old_phone) :
                      \A j \in Matches(rec, old_phone) : k <= j
         IN  [rec |-> [rec EXCEPT !.phones[i].value = new_phone],
              out |-> Return(Msg("Phone number successfully updated.", <<>>))]
    ELSE [rec |-> rec, out |-> Return(Msg("Phone number not found.", <<>>))]

\* A faulty edit_phone: every phone equal to old_phone gets the new value.
Record_edit_phone_every_match(rec, old_phone, new_phone) ==
    IF Matches(rec, old_phone) # {}
    THEN LET p == Phone(new_phone)
         IN  IF p.kind = "raise" THEN [rec |-> rec, out |-> p]
             ELSE [rec |-> [rec EXCEPT !.phones =
                               [j \in 1..Len(@) |->
                                   IF j \in Matches(rec, old_phone)
                                   THEN [@[j] EXCEPT !.value = p.value.value]
                                   ELSE @[j]]],
                   out |-> Return(Msg("Phone number successfully updated.", <<>>))]
    ELSE [rec |-> rec, out |-> Return(Msg("Phone number not found.", <<>>))]

\* Record.edit_phone
Record_edit_phone(rec, old_phone, new_phone) ==
    IF Matches(rec, old_phone) # {}
    THEN LET i == CHOOSE k \in Matches(rec, old_phone) :
                      \A j \in Matches(rec, old_phone) : k <= j
             p == Phone(new_phone)
         IN  IF p.kind = "raise" THEN [rec |-> rec, out |-> p]
             ELSE [rec |-> [rec EXCEPT !.phones[i].value = p.value.value],
                   out |-> Return(Msg("Phone number successfully updated.", <<>>))]
    ELSE [rec |-> rec, out |-> Return(Msg("Phone number not found.", <<>>))]

\* A faulty add_birthday: a valid date replaces the one already set.
Record_add_birthday_overwrite(rec, birthday) ==
    LET b == Birthday(birthday)
    IN  IF b.kind = "raise" THEN [rec |-> rec, out |-> b]
        ELSE [rec |-> [rec EXCEPT !.birthday = b.value],
              out |-> Return(Msg("Birthday successfully added!", <<>>))]

\* Record.add_birthday
Record_add_birthday(rec, birthday) ==
    IF rec.birthday = None
    THEN LET b == Birthday(birthday)
         IN  IF b.kind = "raise" THEN [rec |-> rec, out |-> b]
             ELSE [rec |-> [rec EXCEPT !.birthday = b.value],
                   out |-> Return(Msg("Birthday successfully added!", <<>>))]
    ELSE [rec |-> rec, out |-> Return(Msg("Birthday already exists!", <<>>))]

(***************************************************************************)
(* address_book.py: AddressBook.  self.data is a dict: a sequence of       *)
(* (key, record) items in insertion order, with no key twice.              *)
(***************************************************************************)
Keys(d) == {d[i].key : i \in 1..Len(d)}

IndexOf(d, k) == CHOOSE i \in 1..Len(d) : d[i].key = k

\* self.data[k]
GetItem(d, k) == d[IndexOf(d, k)].record

\* self.data[k] = rec
SetItem(d, k, rec) ==
    IF k \in Keys(d) THEN [d EXCEPT ![IndexOf(d, k)].record = rec]
    ELSE Append(d, [key |-> k, record |-> rec])

\* del self.data[k]
DelItem(d, k) ==
    LET other(item) == item.key # k
    IN  SelectSeq(d, other)

\* A faulty add_record: a name that is a key already keeps its old record.
add_record_keep_first(d, record) ==
    [data |-> IF record.name.value \in Keys(d) THEN d
              ELSE SetItem(d, record.name.value, record),
     out  |-> Return(Msg("Contact '{}' added successfully.", record.name.value))]

\* AddressBook.add_record
add_record(d, record) ==
    [data |-> SetItem(d, record.name.value, record),
     out  |-> Return(Msg("Contact '{}' added successfully.", record.name.value))]

\* AddressBook.find
find(d, name) ==
    IF name \in Keys(d) THEN [data |-> d, out |-> Return(GetItem(d, name))]
    ELSE [data |-> d, out |-> Return(None)]

\* A faulty delete: a missing name is passed over in silence.
delete_ignore_missing(d, name) == [data |-> DelItem(d, name), out |-> Return(None)]

\* AddressBook.delete
delete(d, name) ==
    IF name \in Keys(d) THEN [data |-> DelItem(d, name), out |-> Return(None)]
    ELSE [data |-> d, out |-> Raise("ValueError")]

\* AddressBook.is_valid_birthday
is_valid_birthday(birthday_field) == birthday_field.is = "Birthday"

\* A faulty calculate_next_weekday: only a Sunday is moved.
calculate_next_weekday_sunday_only(d) ==
    IF weekday(d) > 5 THEN plus_days(d, 7 - weekday(d)) ELSE d

\* AddressBook.calculate_next_weekday
calculate_next_weekday(d) ==
    IF weekday(d) >= 5 THEN plus_days(d, 7 - weekday(d)) ELSE d

\* AddressBook.calculate_congratulation_date: any exception of the body is
\* raised again as ValueError.
calculate_congratulation_date(contact_birthday, today, end_date) ==
    LET this_year == replace_year(contact_birthday, today.year)
    IN  IF this_year.kind = "raise" THEN Raise("ValueError")
        ELSE LET moved == IF date_lt(this_year.value, today)
                          THEN replace_year(this_year.value, today.year + 1)
                          ELSE this_year
             IN  IF moved.kind = "raise" THEN Raise("ValueError")
                 ELSE IF date_le(today, moved.value) /\ date_le(moved.value, end_date)
                      THEN Return(calculate_next_weekday(moved.value))
                      ELSE Return(moved.value)

\* The days from today to end_date.
WindowDays == 7

\* The loop of get_upcoming_birthdays over the items from position i on,
\* with `result` the list built so far.
RECURSIVE upcoming_loop(_, _, _, _)
upcoming_loop(d, i, today, result) ==
    IF i > Len(d) THEN Return(result)
    ELSE IF ~is_valid_birthday(d[i].record.birthday)
         THEN upcoming_loop(d, i + 1, today, result)
         ELSE LET c == calculate_congratulation_date(
                           d[i].record.birthday.value, today,
                           plus_days(today, WindowDays))
              IN  IF c.kind = "raise" THEN c
                  ELSE upcoming_loop(d, i + 1, today,
                           Append(result,
                                  [contact_name |-> d[i].key,
                                   congratulation_date |-> strftime(c.value)]))

\* AddressBook.get_upcoming_birthdays, with datetime.today().date() = today
get_upcoming_birthdays(d, today) ==
    [data |-> d, out |-> upcoming_loop(d, 1, today, <<>>)]

(***************************************************************************)
(* handlers_error.py and handlers_command.py                               *)
(***************************************************************************)
\* input_error: ValueError becomes a message; the other exceptions it
\* catches are not raised by these handlers on lists of strings.
input_error(r) ==
    IF r.out.kind = "raise" /\ r.out.exc = "ValueError"
    THEN [r EXCEPT !.out = Return(Msg("Enter the correct number of arguments for the command.", <<>>))]
    ELSE r

\* add_contact
add_contact(args, book) ==
    input_error(
      IF Len(args) # 2 THEN [data |-> book, out |-> Raise("ValueError")]
      ELSE LET name    == args[1]
               phone   == args[2]
               found   == find(book, name).out.value
               record  == IF found = None THEN Record(name) ELSE found
               added   == IF found = None THEN add_record(book, record)
                          ELSE [data |-> book,
                                out |-> Return(Msg("Contact already exists.", <<>>))]
           IN  IF phone # <<>>
               THEN LET p == Record_add_phone(record, phone)
                    IN  IF p.out.kind = "raise"
                        THEN [data |-> added.data, out |-> p.out]
                        ELSE [data |-> SetItem(added.data, name, p.rec),
                              out |-> added.out]
               ELSE added)

\* change_contact
change_contact(args, book) ==
    input_error(
      IF Len(args) # 3 THEN [data |-> book, out |-> Raise("ValueError")]
      ELSE LET name   == args[1]
               record == find(book, name).out.value
           IN  IF record # None
               THEN LET e == Record_edit_phone(record, args[2], args[3])
                    IN  [data |-> SetItem(book, name, e.rec), out |-> e.out]
               ELSE [data |-> book,
                     out |-> Return(Msg("Contact with name '{}' is missing.", name))])

\* add_birthday
add_birthday(args, book) ==
    input_error(
      IF Len(args) # 2 THEN [data |-> book, out |-> Raise("ValueError")]
      ELSE LET name     == args[1]
               birthday == args[2]
               record   == find(book, name).out.value
           IN  IF name = <<>> \/ birthday = <<>>
               THEN [data |-> book,
                     out |-> Return(Msg("Name and birthday cannot be empty.", <<>>))]
               ELSE IF record = None
               THEN [data |-> book,
                     out |-> Return(Msg("Contact with name '{}' is missing.", name))]
               ELSE LET b == Record_add_birthday(record, birthday)
                    IN  [data |-> SetItem(book, name, b.rec), out |-> b.out])

\* birthdays
birthdays(book, today) ==
    input_error(
      LET u == get_upcoming_birthdays(book, today)
      IN  IF u.out.kind = "raise" THEN u
          ELSE IF u.out.value = <<>>
          THEN [data |-> book,
                out |-> Return(Msg("No upcoming birthdays within the next 7 days.", <<>>))]
          ELSE [data |-> book,
                out |-> Return(Msg("Upcoming birthdays:", u.out.value))])

(***************************************************************************)
(* The calls.  A Record method is called on the record stored under key k, *)
(* which it changes in place.                                              *)
(***************************************************************************)
MaxPhones == 2

Made(op, args, r) ==
    /\ data' = r.data
    /\ call' = Call(op, args, r.out)

OnRecord(k, r) == [data |-> SetItem(data, k, r.rec), out |-> r.out]

CallAddRecord(record) == Made("add_record", <<record>>, add_record(data, record))

CallFind(name) == Made("find", <<name>>, find(data, name))

CallDelete(name) == Made("delete", <<name>>, delete(data, name))

CallRecordAddPhone(k, phone) ==
    /\ k \in Keys(data)
    /\ LET r == Record_add_phone(GetItem(data, k), phone)
       IN  /\ Len(r.rec.phones) <= MaxPhones
           /\ Made("Record.add_phone", <<k, phone>>, OnRecord(k, r))

CallRecordRemovePhone(k, phone) ==
    /\ k \in Keys(data)
    /\ Made("Record.remove_phone", <<k, phone>>,
            OnRecord(k, Record_remove_phone(GetItem(data, k), phone)))

CallRecordEditPhone(k, old_phone, new_phone) ==
    /\ k \in Keys(data)
    /\ Made("Record.edit_phone", <<k, old_phone, new_phone>>,
            OnRecord(k, Record_edit_phone(GetItem(data, k), old_phone, new_phone)))

CallRecordAddBirthday(k, birthday) ==
    /\ k \in Keys(data)
    /\ Made("Record.add_birthday", <<k, birthday>>,
            OnRecord(k, Record_add_birthday(GetItem(data, k), birthday)))

CallAddContact(args) ==
    LET r == add_contact(args, data)
    IN  /\ \A i \in 1..Len(r.data) : Len(r.data[i].record.phones) <= MaxPhones
        /\ Made("add_contact", args, r)

CallChangeContact(args) == Made("change_contact", args, change_contact(args, data))

CallAddBirthday(args) == Made("add_birthday", args, add_birthday(args, data))

CallGetUpcomingBirthdays(today) ==
    Made("get_upcoming_birthdays", <<today>>, get_upcoming_birthdays(data, today))

CallBirthdays(today) == Made("birthdays", <<today>>, birthdays(data, today))

CallBirthday(value) == Made("Birthday", <<value>>, [data |-> data, out |-> Birthday(value)])

(***************************************************************************)
(* The registry and the commands: two names, one valid and one invalid     *)
(* phone, two valid and one impossible birthday.                           *)
(***************************************************************************)
ann == <<"a", "n", "n">>

bob == <<"b", "o", "b">>

Names == {ann, bob}

P0 == Rep("0", PhoneDigits)

PBad == <<"1", "2", "3">>

RawPhones == {P0, PBad}

B1 == <<"1", "3", ".", "0", "3", ".", "1", "9", "9", "0">>

B2 == <<"1", "6", ".", "0", "3", ".", "1", "9", "8", "5">>

BBad == <<"3", "1", ".", "0", "2", ".", "2", "0", "2", "0">>

RawBirthdays == {B1, B2, BBad}

\* Records as a caller builds them before add_record: new, or with a phone
\* and a birthday already added.
NewRecords ==
    {Record(n) : n \in Names} \cup
    {Record_add_birthday(Record_add_phone(Record(n), P0).rec, B1).rec : n \in Names}

AddContactArgs ==
    {<<n, p>> : n \in Names, p \in RawPhones \cup {<<>>}} \cup {<<ann>>, <<ann, P0, P0>>}

ChangeContactArgs ==
    {<<n, o, p>> : n \in Names, o \in RawPhones, p \in RawPhones} \cup {<<ann, P0>>}

AddBirthdayArgs ==
    {<<n, b>> : n \in Names, b \in RawBirthdays} \cup
    {<<ann>>, <<ann, B1, B1>>, <<<<>>, B1>>, <<ann, <<>>>>}

Init == data = <<>> /\ call = Call("init", <<>>, Return(None))

Next ==
    \/ \E record \in NewRecords : CallAddRecord(record)
    \/ \E name \in Names : CallFind(name)
    \/ \E name \in Names : CallDelete(name)
    \/ \E k \in Names, phone \in RawPhones : CallRecordAddPhone(k, phone)
    \/ \E k \in Names, phone \in RawPhones : CallRecordRemovePhone(k, phone)
    \/ \E k \in Names, o \in RawPhones, p \in RawPhones : CallRecordEditPhone(k, o, p)
    \/ \E k \in Names, b \in RawBirthdays : CallRecordAddBirthday(k, b)
    \/ \E args \in AddContactArgs : CallAddContact(args)
    \/ \E args \in ChangeContactArgs : CallChangeContact(args)
    \/ \E args \in AddBirthdayArgs : CallAddBirthday(args)

Spec == Init /\ [][Next]_vars

(***************************************************************************)
(* One record and its phones, with raw strings around the ten digits.      *)
(***************************************************************************)
P7 == Rep("7", PhoneDigits)

P1 == Rep("1", PhoneDigits)

PhoneInputs ==
    {P0, P7,
     <<>>, Rep("7", PhoneDigits - 1), Rep("7", PhoneDigits + 1),
     Rep("7", PhoneDigits - 1) \o <<"x">>,
     <<"x">> \o Rep("7", PhoneDigits - 1),
     Rep("7", 4) \o <<"-">> \o Rep("7", 5),
     P7 \o <<"\n">>,
     P7 \o <<" ">>,
     <<" ">> \o P7,
     Rep("7", PhoneDigits - 1) \o <<"u0663">>,
     P7 \o <<"\n", "\n">>,
     Rep("7", PhoneDigits - 1) \o <<"\n">>}

\* Values to look for: two that get stored and one that never is.
OldPhones == {P0, P7, P1}

NextRecord ==
    \/ CallAddRecord(Record(ann))
    \/ \E phone \in PhoneInputs : CallRecordAddPhone(ann, phone)
    \/ \E o \in OldPhones, p \in PhoneInputs : CallRecordEditPhone(ann, o, p)
    \/ \E phone \in OldPhones : CallRecordRemovePhone(ann, phone)

SpecRecord == Init /\ [][NextRecord]_vars

(***************************************************************************)
(* The same record, which may also be given a birthday.                    *)
(***************************************************************************)
NextEdit ==
    \/ NextRecord
    \/ \E birthday \in RawBirthdays : CallRecordAddBirthday(ann, birthday)

SpecEdit == Init /\ [][NextEdit]_vars

(***************************************************************************)
(* Birthday(value) on strings around the layout DD.MM.YYYY.                *)
(***************************************************************************)
DayTexts ==
    {<<"0", "1">>, <<"1">>, <<"1", "3">>, <<"2", "9">>, <<"3", "0">>, <<"3", "1">>,
     <<"3", "2">>, <<"0", "0">>, <<"0">>, <<" ", "1">>, <<"1", "u0663">>,
     <<"0", "0", "1">>, <<"x", "1">>}

MonthTexts ==
    {<<"0", "1">>, <<"1">>, <<"0", "2">>, <<"2">>, <<"0", "4">>, <<"1", "2">>,
     <<"1", "3">>, <<"0", "0">>}

YearTexts ==
    {<<"2", "0", "2", "0">>, <<"2", "0", "2", "1">>, <<"1", "9", "0", "0">>,
     <<"2", "0", "0", "0">>, <<"0", "0", "0", "0">>, <<"0", "0", "0", "1">>,
     <<"2", "0">>, <<"2", "0", "2", "0", "0">>, <<"2", "0", "2", "u0663">>}

Separators == {<<".">>, <<"-">>}

Endings == {<<>>, <<"\n">>}

BirthdayInputs ==
    {d \o s \o m \o s \o y \o e :
        d \in DayTexts, m \in MonthTexts, y \in YearTexts, s \in Separators, e \in Endings}
    \cup {<<>>, <<"2", "0", "2", "0", "-", "0", "1", "-", "0", "1">>}

\* The string to parse is drawn first; the one step parses it.
InitParse ==
    /\ data = <<>>
    /\ \E value \in BirthdayInputs :
           call = Call("input", <<value>>, Return(None))

NextParse == call.op = "input" /\ CallBirthday(call.args[1])

SpecParse == InitParse /\ [][NextParse]_vars

(***************************************************************************)
(* The upcoming birthdays of two contacts, on several days.                *)
(***************************************************************************)
Day(d, m, y) == [year |-> y, month |-> m, day |-> d]

\* 10.03.2024 is a Sunday in a leap year; 10.03.2023 a Friday; the week from
\* 27.02.2023 holds no 29 February; the week from 28.12.2024 ends in 2025;
\* the week from 25.02.2024 holds 29.02.2024.
Todays ==
    {Day(10, 3, 2024), Day(10, 3, 2023), Day(27, 2, 2023), Day(28, 12, 2024),
     Day(25, 2, 2024)}

B0101 == <<"0", "1", ".", "0", "1", ".", "1", "9", "9", "0">>

B2902 == <<"2", "9", ".", "0", "2", ".", "2", "0", "0", "0">>

B1703 == <<"1", "7", ".", "0", "3", ".", "1", "9", "9", "0">>

B1003 == <<"1", "0", ".", "0", "3", ".", "2", "0", "0", "1">>

B0903 == <<"0", "9", ".", "0", "3", ".", "1", "9", "9", "9">>

UpcomingBirthdayInputs == {B1, B2, B0101, B2902, B1703, B1003, B0903}

NextBirthdays ==
    \/ \E name \in Names : CallAddContact(<<name, <<>>>>)
    \/ \E name \in Names, b \in UpcomingBirthdayInputs : CallAddBirthday(<<name, b>>)
    \/ \E name \in Names : CallDelete(name)
    \/ \E today \in Todays : CallGetUpcomingBirthdays(today)
    \/ \E today \in Todays : CallBirthdays(today)

SpecBirthdays == Init /\ [][NextBirthdays]_vars

(***************************************************************************)
(* The claims                                                              *)
(***************************************************************************)
Phones(i) == data[i].record.phones

Said(text) == Return(Msg(text, <<>>))

InputErrorText == "Enter the correct number of arguments for the command."

\* The stored month and day in year y, when that is a date.
Projected(b, y) == date(y, b.month, b.day)

\* The candidate date of birthday b: this year's, or next year's when this
\* year's is before today.
Candidate(b, today) ==
    LET p == Projected(b, today.year)
    IN  IF p.kind = "raise" THEN p
        ELSE IF toordinal(p.value) < toordinal(today)
             THEN Projected(b, today.year + 1)
             ELSE p

\* The candidate exists and lies in today .. today + days.
InWindow(b, today, days) ==
    LET c == Candidate(b, today)
    IN  /\ c.kind = "return"
        /\ toordinal(today) <= toordinal(c.value)
        /\ toordinal(c.value) <= toordinal(today) + days

\* The entries of the returned list for the contact under key k.
EntriesOf(k) ==
    {j \in 1..Len(call.out.value) : call.out.value[j].contact_name = k}

Upcoming == call.op = "get_upcoming_birthdays" /\ call.out.kind = "return"

\* C1: the result of get_upcoming_birthdays holds an entry for a contact if
\* and only if the contact has a birthday whose candidate date lies in
\* today .. today + 6 days.
C1_ListedIffWithinSixDays ==
    Upcoming =>
        \A i \in 1..Len(data) :
            (EntriesOf(data[i].key) # {}) <=>
                /\ data[i].record.birthday # None
                /\ InWindow(data[i].record.birthday.value, call.args[1], 6)

\* The first Monday after a Saturday or Sunday, the date itself otherwise.
Shifted(c) == IF weekday(c) <= 4 THEN c ELSE fromordinal(toordinal(c) + (7 - weekday(c)))

\* C2: for every contact whose unshifted candidate lies in the window that
\* get_upcoming_birthdays tests, the reported date is the candidate when it
\* is Monday to Friday and the first Monday after it otherwise; it is never
\* a Saturday or Sunday and never earlier than the candidate.
C2_WeekendShift ==
    Upcoming =>
        \A i \in 1..Len(data) :
            LET b == data[i].record.birthday
            IN  (b # None /\ InWindow(b.value, call.args[1], WindowDays)) =>
                    LET c == Candidate(b.value, call.args[1]).value
                    IN  /\ Cardinality(EntriesOf(data[i].key)) = 1
                        /\ \A j \in EntriesOf(data[i].key) :
                            LET text == call.out.value[j].congratulation_date
                                reported == strptime(text)
                            IN  /\ text = strftime(Shifted(c))
                                /\ reported.kind = "return"
                                /\ weekday(reported.value) \notin {5, 6}
                                /\ toordinal(c) <= toordinal(reported.value)

\* A Saturday birthday in the window was reported on the Monday after it.
C2_Witness ==
    /\ Upcoming
    /\ call.args[1] = Day(10, 3, 2024)
    /\ \E i \in 1..Len(data) :
          /\ data[i].record.birthday # None
          /\ data[i].record.birthday.value = Day(16, 3, 1985)
          /\ \E j \in EntriesOf(data[i].key) :
                call.out.value[j].congratulation_date =
                    <<"1", "8", ".", "0", "3", ".", "2", "0", "2", "4">>

\* C3: with a contact born on 29 February and a projection year that is not
\* a leap year, get_upcoming_birthdays does not fail: it returns a list
\* that skips that contact.
C3_LeapDaySkipped ==
    call.op = "get_upcoming_birthdays" =>
        /\ call.out.kind = "return"
        /\ \A i \in 1..Len(data) :
              (/\ data[i].record.birthday # None
               /\ Candidate(data[i].record.birthday.value, call.args[1]).kind = "raise")
                  => EntriesOf(data[i].key) = {}

\* The phones of the one record of SpecRecord, [] when there is none.
ThePhones(d) == IF d = <<>> THEN <<>> ELSE d[1].record.phones

OldIsPresent(d, old) == \E j \in 1..Len(ThePhones(d)) : ThePhones(d)[j].value = old

EditWithInvalidNew(c) == c.op = "Record.edit_phone" /\ ~phone_pattern_match(c.args[3])

\* C4 as stated: edit_phone with an invalid new value ends in a validation
\* failure, whether or not old is among the phones, and changes nothing.
C4_ValidatesBeforeSearch ==
    [][EditWithInvalidNew(call') =>
          call'.out = Raise("ValueError") /\ data' = data]_vars

\* C4 as amended: edit_phone looks for old before it validates new.  A call
\* with an invalid new value changes nothing; it ends in a validation
\* failure when old is among the phones and in "not found" when it is not.
C4_SearchesBeforeValidation ==
    [][EditWithInvalidNew(call') =>
          /\ data' = data
          /\ OldIsPresent(data, call'.args[2]) => call'.out = Raise("ValueError")
          /\ ~OldIsPresent(data, call'.args[2]) =>
                 call'.out = Said("Phone number not found.")]_vars

\* An invalid new value for an absent old value gave "not found", on a
\* record that has a phone.
C4_Witness ==
    /\ EditWithInvalidNew(call)
    /\ ThePhones(data) # <<>>
    /\ ~OldIsPresent(data, call.args[2])
    /\ call.out = Said("Phone number not found.")

ValidationError(c) ==
    \/ c.op \in {"Record.add_phone", "Record.add_birthday"} /\ c.out.kind = "raise"
    \/ c.op \in {"add_contact", "change_contact", "add_birthday"}
           /\ c.out = Said(InputErrorText)

\* C5: a call of Record.add_phone, Record.add_birthday, add_contact,
\* change_contact or add_birthday that ends in a validation error leaves the
\* registry and every record as they were.
C5_ValidationErrorChangesNothing ==
    [][ValidationError(call') => data' = data]_vars

C8_KeyIsName ==
    /\ \A i \in 1..Len(data) : data[i].key = data[i].record.name.value
    /\ \A i, j \in 1..Len(data) : data[i].key = data[j].key => i = j
    /\ call.op = "add_record" =>
          \E i \in 1..Len(data) :
              /\ data[i].key = call.args[1].name.value
              /\ data[i].record = call.args[1]

\* A new record was added under a name that was a key already: it took the
\* place of the old one, ahead of the entry added after it.
C8_Witness ==
    /\ call.op = "add_record"
    /\ call.args[1] = Record(ann)
    /\ Len(data) = 2
    /\ data[1] = [key |-> ann, record |-> Record(ann)]

IsTenAsciiDigits(s) == Len(s) = 10 /\ \A i \in 1..Len(s) : s[i] \in AsciiDigits

\* C9: a phone is accepted if and only if it is exactly ten ASCII digits,
\* and every stored phone is ten ASCII digits.
C9_PhoneIsTenAsciiDigits ==
    /\ call.op = "Record.add_phone" =>
          (call.out.kind = "return" <=> IsTenAsciiDigits(call.args[2]))
    /\ \A i \in 1..Len(data) : \A j \in 1..Len(Phones(i)) :
          IsTenAsciiDigits(Phones(i)[j].value)

\* Two ASCII digits, a dot, two ASCII digits, a dot, four ASCII digits.
IsDDMMYYYY(s) ==
    /\ Len(s) = 10
    /\ s[3] = "." /\ s[6] = "."
    /\ \A i \in {1, 2, 4, 5, 7, 8, 9, 10} : s[i] \in AsciiDigits

\* The (year, month, day) such a string names.
Denoted(s) ==
    [year |-> IntOf(SubSeq(s, 7, 10)), month |-> IntOf(SubSeq(s, 4, 5)),
     day |-> IntOf(SubSeq(s, 1, 2))]

IsCalendarDate(d) ==
    /\ d.year \in MINYEAR..MAXYEAR
    /\ d.month \in 1..12
    /\ d.day \in 1..days_in_month(d.year, d.month)

\* C10: Birthday parsing succeeds exactly on the strings DD.MM.YYYY that
\* name a calendar date, and gives that date.
C10_ParsesExactlyDDMMYYYY ==
    call.op = "Birthday" =>
        LET s == call.args[1]
            good == IsDDMMYYYY(s) /\ IsCalendarDate(Denoted(s))
        IN  /\ call.out.kind = "return" <=> good
            /\ good => call.out = Return([is |-> "Birthday", value |-> Denoted(s)])

EditWithValidNew(c) == c.op = "Record.edit_phone" /\ phone_pattern_match(c.args[3])

\* The first position of d's record whose phone has the value old.
FirstMatch(d, old) ==
    CHOOSE j \in 1..Len(ThePhones(d)) :
        /\ ThePhones(d)[j].value = old
        /\ \A k \in 1..(j - 1) : ThePhones(d)[k].value # old

\* C11: edit_phone(old, new) with a new value that validation accepts.  When
\* no phone equals old it returns "not found" and the phones are unchanged;
\* when some phone equals old, the first such phone gets the value new, the
\* sequence keeps its length and every other position keeps its value (later
\* duplicates of old included).  The name and the birthday are unchanged in
\* both cases.
C11_EditReplacesFirstMatchOnly ==
    [][EditWithValidNew(call') =>
          LET old == call'.args[2]
              new == call'.args[3]
          IN  /\ Keys(data') = Keys(data)
              /\ data'[1].record.name = data[1].record.name
              /\ data'[1].record.birthday = data[1].record.birthday
              /\ ~OldIsPresent(data, old) =>
                     /\ call'.out = Said("Phone number not found.")
                     /\ ThePhones(data') = ThePhones(data)
              /\ OldIsPresent(data, old) =>
                     /\ Len(ThePhones(data')) = Len(ThePhones(data))
                     /\ \A j \in 1..Len(ThePhones(data)) :
                            ThePhones(data')[j].value =
                                IF j = FirstMatch(data, old) THEN new
                                ELSE ThePhones(data)[j].value]_vars

\* A record with a birthday held old twice; the edit gave the first phone a
\* different new value and the second still has old.
C11_Witness ==
    /\ EditWithValidNew(call)
    /\ call.args[2] # call.args[3]
    /\ call.out = Said("Phone number successfully updated.")
    /\ data[1].record.birthday # None
    /\ ThePhones(data) = <<[value |-> call.args[3]], [value |-> call.args[2]]>>
====
